---- MODULE Spec2Model ----
(***************************************************************************)
(* The session-context resolution and timed progress-submission engine of  *)
(* auto-crawler: WatchVideoJob.run, ProbeServiceJob.run and                *)
(* WatchCourseIncompleteJob.run (src/jobs.py) over MoodleClient            *)
(* (src/http_client.py).                                                   *)
(*                                                                         *)
(* Time is in whole seconds.  now is the wall clock, measured from the     *)
(* moment the current WatchVideoJob.run was entered (the code only ever    *)
(* uses differences of time.time()).  A fetched page is represented by     *)
(* what the extraction helpers return on it.  The watch-video command is   *)
(* WatchVideoJob.run on one video, which is what the batch driver does for *)
(* each item, so the entry points modelled are probe-service and           *)
(* watch-course-incomplete.                                                *)
(*                                                                         *)
(* Spec is the engine.  SpecClient is MoodleClient on its own: one call of *)
(* get, attempt by attempt, or one call of call_ajax_service.              *)
(***************************************************************************)
EXTENDS Integers, Sequences, FiniteSets, TLC

\* Python's None for an optional integer / an optional string.
NoInt == -1
NoStr == "None"
\* A page value that is no number, such as the string "soon": truthy, and
\* int() of it raises ValueError.
NotNumeric == -2

\* Bounds of the model.
MaxLatency == 1       \* a service call takes 0 or MaxLatency seconds
MaxItems == 2         \* incomplete videos a course page lists
MaxRetries == 3       \* the largest max_retries get is called with

\* Program constants.
MinShortSleep == 30   \* max(30, sessiontimeout // 2)
FinishPermille == 999 \* progress_val >= 0.999

Min(a, b) == IF a <= b THEN a ELSE b
Max(a, b) == IF a >= b THEN a ELSE b

\* Python truthiness of an optional integer / an optional string.
Truthy(x) == x # NoInt /\ x # 0
TruthyStr(s) == s # NoStr /\ s # ""

(***************************************************************************)
(* Inputs.                                                                 *)
(***************************************************************************)
Modes == {"probe", "batch"}
Durations == {0, 100}
Intervals == {25, 40, 61, 100}
Latencies == {0, MaxLatency}
Timeouts == {NoInt, 0, 20, 61, 90, 100}
Targets == {NoInt, 0, 90}
PageDurations == {NoInt, 30}
Gaps == {0, 5}

ArgNames == {"progress", "finish", "unique", "time", "fsresourceid"}
ArgSets == {{"time"}, {"finish", "unique", "time"},
            {"progress", "finish", "unique", "time"}}

\* payload_template: absent, text that is not JSON after substitution, JSON
\* that is not a list of entries with an args mapping, or such a list.
NoTemplate == [kind |-> "none", args |-> {}]
Templates == {NoTemplate, [kind |-> "malformed", args |-> {}],
              [kind |-> "scalar", args |-> {}]}
             \cup {[kind |-> "entry", args |-> s] : s \in ArgSets}

\* What parse_m_cfg, extract_sesskey and extract_fsresource_info return on
\* a video page: the sesskey is found in at most one of the three places (k
\* names it), with timeout t and playerdata duration d.
PageOf(k, t, c, f, d) ==
  [cfgSesskey |-> IF k = "k_cfg" THEN k ELSE NoStr,
   inlineSesskey |-> IF k = "k_html" THEN k ELSE NoStr,
   playerSesskey |-> IF k = "k_player" THEN k ELSE NoStr,
   sessiontimeout |-> t, contextInstanceId |-> c, fsresourceid |-> f,
   duration |-> d]
KeyPlaces == {NoStr, "k_cfg", "k_html", "k_player"}
IdPairs == {<<NoInt, NoInt>>, <<7, NoInt>>, <<7, 4821>>}
PagesOver(keys, tos, ids, durs) ==
  {PageOf(k, t, i[1], i[2], d) : k \in keys, t \in tos, i \in ids, d \in durs}

NoPage == [cfgSesskey |-> NoStr, inlineSesskey |-> NoStr, playerSesskey |-> NoStr,
           sessiontimeout |-> NoInt, contextInstanceId |-> NoInt,
           fsresourceid |-> NoInt, duration |-> NoInt]

\* What service.php answers: the call raises (HTTP failure or undecodable
\* body), or the decoded JSON is a list (empty, or with an entry 0), or a
\* mapping.  error: entry 0 (or the mapping) has a true error flag.  data:
\* entry 0 has no data field, a data mapping, or a data mapping whose
\* completion is "已完成".  own: the entry (or the mapping) itself has a
\* completion field equal to "已完成".
Resp(t, e, d, o) == [top |-> t, error |-> e, data |-> d, own |-> o]
Responses ==
  { Resp("raise", FALSE, "none", FALSE),
    Resp("list", FALSE, "plain", FALSE),
    Resp("list", FALSE, "done", FALSE),
    Resp("list", TRUE, "none", FALSE),
    Resp("empty", FALSE, "none", FALSE),
    Resp("dict", TRUE, "none", FALSE),
    Resp("dict", FALSE, "none", TRUE) }
NoResp == Resp("nil", FALSE, "none", FALSE)

NoRpc == [kind |-> "none", prev |-> "none", jobToken |-> NoStr]

\* The inputs explored: six families, each varying what one part of
\* the engine reads and pinning the rest.  Context resolution: every place
\* of the sesskey and of the ids.  Payload: every template and target.
\* Timing: every interval and session timeout.  Malformed pages: a
\* sessiontimeout or a contextInstanceId that is no number.  Stopping: a
\* request to stop may arrive while a run is under way.  Long runs: an
\* elapsed time within a thousandth of the target.
FullTemplate == [kind |-> "entry", args |-> ArgNames]
Worlds ==
  { [durations |-> Durations, intervals |-> {100},
     templates |-> {NoTemplate, FullTemplate}, targets |-> {NoInt},
     gaps |-> Gaps, stops |-> {"none"},
     pages |-> PagesOver(KeyPlaces, {NoInt}, IdPairs, {NoInt})],
    [durations |-> Durations, intervals |-> {40},
     templates |-> Templates, targets |-> Targets,
     gaps |-> {5}, stops |-> {"none"},
     pages |-> PagesOver({"k_cfg"}, {NoInt}, {<<7, 4821>>}, PageDurations)],
    [durations |-> Durations, intervals |-> Intervals,
     templates |-> {FullTemplate}, targets |-> {NoInt},
     gaps |-> {5}, stops |-> {"none"},
     pages |-> PagesOver({"k_cfg"}, Timeouts, {<<7, 4821>>}, {NoInt})],
    [durations |-> {100}, intervals |-> {100},
     templates |-> {NoTemplate}, targets |-> {NoInt},
     gaps |-> {5}, stops |-> {"none"},
     pages |-> PagesOver({"k_cfg"}, {NotNumeric, 20},
                         {<<NotNumeric, NoInt>>, <<7, 4821>>}, {NoInt})],
    [durations |-> {100}, intervals |-> {40},
     templates |-> {NoTemplate, FullTemplate}, targets |-> {NoInt},
     gaps |-> {5}, stops |-> {"pending"},
     pages |-> PagesOver({"k_html"}, {NoInt}, {<<7, 4821>>}, {NoInt})],
    [durations |-> {1000}, intervals |-> {999},
     templates |-> {FullTemplate}, targets |-> {1000, 1001},
     gaps |-> {5}, stops |-> {"none"},
     pages |-> PagesOver({"k_player"}, {NoInt}, {<<7, 4821>>}, {NoInt})] }

VARIABLES
  site, mode, duration_seconds, interval_seconds, payload_template, cli_target,
  gap_seconds, stop,
  target_seconds, video_id,
  nIncomplete, nItems, idx, prevOutcome, rested,
  pc, html, sesskey, sessiontimeout, context_instance_id, fsresourceid,
  start, endT, calls, elapsed, payload, progress_val, sleep_s,
  now,
  lastRpc, lastAt, gap, submits, lastResp, report, cm_resp, prevTime,
  method, cpc, max_retries, attempt, last_exc, answers, slept, returned, raised,
  html_context, my_page, fetches, sent_sesskey, data, result,
  fs_html, info

config == <<site, mode, duration_seconds, interval_seconds, payload_template, cli_target,
           gap_seconds, video_id>>
driver == <<nIncomplete, nItems, idx, prevOutcome, rested>>
context == <<html, sesskey, sessiontimeout, context_instance_id, fsresourceid>>
poll == <<start, endT, calls, elapsed, payload, progress_val, sleep_s>>
history == <<lastRpc, lastAt, gap, submits, lastResp, report, cm_resp, prevTime>>
\* MoodleClient: the call under way, the locals of get, what a call of
\* call_ajax_service was given and what it sent and returned.
transport == <<max_retries, attempt, last_exc, answers, slept>>
gateway == <<html_context, my_page, fetches, sent_sesskey, data, result>>
extraction == <<fs_html, info>>
client == <<method, cpc, transport, returned, raised, gateway, extraction>>
engine == <<config, stop, target_seconds, driver, pc, context, poll, now, history>>
vars == <<engine, client>>
\* stop is the environment's: "none" when nobody will ask the run to
\* stop, "pending" when somebody may, "requested" once somebody has.  No
\* statement of jobs.py reads it.
\* (cm_resp is what service.php answered to the module-info lookup of the
\* current run, NoResp while none was made; prevTime is the value that stood
\* for {time} in the latest submission of the current run, NoInt while none
\* was sent or the template has no {time}.)

(***************************************************************************)
(* Pure helpers of the engine.                                             *)
(***************************************************************************)
\* A fraction is <<numerator, denominator>> with a positive denominator.
Zero == <<0, 1>>
One == <<1, 1>>
NoProgress == <<0, 0>>
Ratio(e, t) == IF t > 0 THEN <<e, t>> ELSE <<0 - e, 0 - t>>
LeqR(a, b) == a[1] * b[2] <= b[1] * a[2]
MinR(a, b) == IF LeqR(a, b) THEN a ELSE b
MaxR(a, b) == IF LeqR(b, a) THEN a ELSE b

\* ProgressVal without the upper clamp.
ProgressVal_NoMin(e, t) == MaxR(Zero, Ratio(e, t))

\* progress_val = max(0.0, min(1.0, elapsed / float(target_seconds)))
ProgressVal(e, t) == MaxR(Zero, MinR(One, Ratio(e, t)))

\* The hundredths cut off, not rounded.
Format2_Floor(r) == (100 * r[1]) \div r[2]

\* f"{progress_val:.2f}" as a number of hundredths: nearest, an exact tie
\* (an odd number of eighths) going to the even hundredth.  This is what
\* Python prints for every elapsed and every target that is no multiple of
\* 40 (there a tie is no binary fraction and the float decides).
Format2(r) ==
  LET q == (100 * r[1]) \div r[2]
      m == (100 * r[1]) % r[2]
  IN  IF 2 * m > r[2] THEN q + 1
      ELSE IF 2 * m = r[2] THEN q + (q % 2)
      ELSE q

\* The flag set only at full progress.
FinishFlag_OnlyFull(r) == IF r[1] >= r[2] THEN 1 ELSE 0

\* 1 if progress_val >= 0.999 else 0
FinishFlag(r) == IF 1000 * r[1] >= FinishPermille * r[2] THEN 1 ELSE 0

\* timestamp = int(time.time() * 1000)
Timestamp(t) == t * 1000

\* sesskey = mcfg.get("sesskey") or extract_sesskey(html), then playerdata's
ResolveSesskey(p) ==
  IF TruthyStr(p.cfgSesskey) THEN p.cfgSesskey
  ELSE IF TruthyStr(p.inlineSesskey) THEN p.inlineSesskey
  ELSE IF TruthyStr(p.playerSesskey) THEN p.playerSesskey
  ELSE NoStr

\* int(x) raises for a value that is no number
IntRaises(x) == x = NotNumeric

\* int(mcfg.get("sessiontimeout")) if mcfg.get("sessiontimeout") else None
ResolveTimeout(p) == IF Truthy(p.sessiontimeout) THEN p.sessiontimeout ELSE NoInt

\* self.target_seconds, replaced by the page's duration when it is unset
ResolveTarget(t, p) == IF ~Truthy(t) /\ Truthy(p.duration) THEN p.duration ELSE t

\* time_value counting down the time that is left.
TimeValue_Remaining(e, d) == d - Min(e, d)

\* time_value = min(elapsed, int(self.duration_seconds))
TimeValue(e, d) == Min(e, d)

\* The template after .replace(...) of the placeholders and json.loads: an
\* argument is <<tag, number>>; "time" carries {time}, "fsresourceid"
\* carries {fsresourceid}, the others a literal.
JsonParses(tpl) == tpl.kind \in {"scalar", "entry"}
Substitute(tpl, time_value, fsid) ==
  [kind |-> tpl.kind,
   args |-> [a \in tpl.args |->
               IF a = "time" THEN <<"time", time_value>>
               ELSE IF a = "fsresourceid" THEN <<"fsid", fsid>>
               ELSE <<"tpl", 0>>]]
NoPayload == [kind |-> "none", args |-> <<>>]
\* The number a payload carries where the template had {fsresourceid}.
SentId(p) == IF "fsresourceid" \in DOMAIN p.args THEN p.args["fsresourceid"][2] ELSE NoInt
\* The number a payload carries where the template had {time}.
SentTime(p) == IF "time" \in DOMAIN p.args THEN p.args["time"][2] ELSE NoInt

\* FillPayload writing progress whether or not the entry declares it.
FillPayload_AddsProgress(p, target, e, ts) ==
  IF p.kind # "entry" THEN p
  ELSE [p EXCEPT !.args =
          [a \in DOMAIN p.args \cup {"progress"} |->
             IF a = "progress"
               THEN <<"pct", IF Truthy(target) THEN Format2(ProgressVal(e, target))
                                                ELSE 0>>
             ELSE IF a = "finish" /\ Truthy(target)
               THEN <<"flag", FinishFlag(ProgressVal(e, target))>>
             ELSE IF a = "unique" THEN <<"uniq", ts>>
             ELSE p.args[a]]]

\* Lines 155-177: progress and finish are overwritten when a target is known
\* and the entry declares them, unique whenever it is declared; payload[0]
\* of anything but a list of entries raises and is swallowed.
FillPayload(p, target, e, ts) ==
  IF p.kind # "entry" THEN p
  ELSE [p EXCEPT !.args =
          [a \in DOMAIN p.args |->
             IF a = "progress" /\ Truthy(target)
               THEN <<"pct", Format2(ProgressVal(e, target))>>
             ELSE IF a = "finish" /\ Truthy(target)
               THEN <<"flag", FinishFlag(ProgressVal(e, target))>>
             ELSE IF a = "unique" THEN <<"uniq", ts>>
             ELSE p.args[a]]]

\* SleepS without the adjustment to the session timeout.
SleepS_NoHint(interval, timeout) == interval

\* SleepS with min in place of max.
SleepS_Min(interval, timeout) ==
  IF Truthy(timeout) /\ interval > timeout
    THEN Min(MinShortSleep, timeout \div 2)
    ELSE interval

\* sleep_s = interval; if sessiontimeout and sleep_s > sessiontimeout:
\*     sleep_s = max(30, sessiontimeout // 2)
SleepS(interval, timeout) ==
  IF Truthy(timeout) /\ interval > timeout
    THEN Max(MinShortSleep, timeout \div 2)
    ELSE interval

\* out = resp_json[0].get("data", resp_json[0]) for a non-empty list, else
\* resp_json: is it a dict, and is its completion "已完成"?
OutIsDict(r) == r.top \in {"list", "dict"}
OutCompleted(r) ==
  IF r.top = "list" /\ r.data # "none" THEN r.data = "done" ELSE r.own

\* A completion signal that does not end the loop.
AfterResponse_NoBreak(r) == "sleep"

\* A failed call that ends the run.
AfterResponse_RaiseAborts(r) ==
  IF r.top = "raise" THEN "Aborted"
  ELSE IF OutIsDict(r) /\ OutCompleted(r) THEN "Completed" ELSE "sleep"

\* Lines 180-206: where the iteration goes once post_service returned r or
\* raised: break on a completed dict, else on to the sleep.
AfterResponse(r) ==
  IF r.top # "raise" /\ OutIsDict(r) /\ OutCompleted(r) THEN "Completed" ELSE "sleep"

\* cm_info.get("instance") or fsresourceid, cm_info being what
\* get_course_module_info makes of response r: entry 0's data when the
\* response is a list whose entry 0 has no error, else {}; the data may or
\* may not carry an instance.
InstanceOf(r, fsid) ==
  IF r.top = "list" /\ ~r.error /\ r.data # "none" THEN {55, fsid} ELSE {fsid}

\* The sesskey check left out.
SesskeyMissing_Never(k) == FALSE

\* if not sesskey: ... return
SesskeyMissing(k) == ~TruthyStr(k)

(***************************************************************************)
(* MoodleClient: what get and call_ajax_service work on.                   *)
(***************************************************************************)
\* What one session.get meets: a response with a status, or an exception
\* of requests (no response), written NoStatus.
NoStatus == 0
Answers == {200, 204, 404, 429, 501, 503, NoStatus}
RetryStatuses == {429, 500, 502, 503, 504}
\* backoff: float = 0.8, in tenths of a second
BackoffTenths == 8

\* The same pause after every failed attempt.
BackoffSleep_Flat(k) == BackoffTenths

\* Lines 41 and 48: time.sleep(backoff * attempt), in tenths of a second.
BackoffSleep(k) == BackoffTenths * k

\* One attempt more than max_retries.
Exhausted_OneMore(i, n) == i > n + 1

\* for attempt in range(1, max_retries + 1): is the range used up at i?
Exhausted(i, n) == i > n

\* resp.raise_for_status() raises for a 4xx or 5xx status
RaisesForStatus(a) == a >= 400

\* The decoded body of service.php, or the failure to get one.  An entry is
\* a mapping with or without an error and a data member, or no mapping at
\* all (a number, a string, null).
ErrorVals == {"absent", "false", "null", "true", "message"}
DataVals == {"absent", "null", "payload"}
Entry(k, e, d) == [kind |-> k, error |-> e, data |-> d]
NoEntry == Entry("none", "absent", "absent")
MapEntries == {Entry("map", e, d) : e \in ErrorVals, d \in DataVals}
Entries == MapEntries \cup {Entry("scalar", "absent", "absent")}
Body(t, es, o) == [top |-> t, entries |-> es, own |-> o]
NoBody == Body("none", <<>>, NoEntry)
Bodies ==
  {Body("http_error", <<>>, NoEntry), Body("not_json", <<>>, NoEntry),
   Body("scalar", <<>>, NoEntry), Body("list", <<>>, NoEntry)}
  \cup {Body("list", <<e>>, NoEntry) : e \in Entries}
  \cup {Body("list", <<e, Entry("map", "true", "payload")>>, NoEntry) : e \in Entries}
  \cup {Body("map", <<>>, o) : o \in MapEntries}

\* Python's truth value of entry.get("error")
TruthyJson(v) == v \in {"true", "message"}
\* entry.get("data"): None for a missing member
GetData(entry) == IF entry.data = "absent" THEN "null" ELSE entry.data

\* What call_ajax_service hands back: entry 0 itself, a value, or the body
\* it decoded; or the exception it leaves with.
Ret(w, e, v, b) == [what |-> w, entry |-> e, value |-> v, body |-> b]
NoResult == Ret("none", NoEntry, "none", NoBody)

\* The data member returned whether or not entry 0 has an error.
Unwrap_DataOnly(b) ==
  IF b.top = "list" /\ Len(b.entries) > 0
    THEN Ret("value", NoEntry, GetData(b.entries[1]), NoBody)
    ELSE Ret("body", NoEntry, "none", b)

\* Lines 159-165: if isinstance(data, list) and data: entry = data[0];
\* entry if entry.get("error") else entry.get("data"); else data.  An entry
\* that is no mapping has no get.
Unwrap(b) ==
  IF b.top = "list" /\ Len(b.entries) > 0
    THEN LET entry == b.entries[1]
         IN  IF entry.kind # "map" THEN Ret("raise", NoEntry, "AttributeError", NoBody)
             ELSE IF TruthyJson(entry.error) THEN Ret("entry", entry, "none", NoBody)
             ELSE Ret("value", NoEntry, GetData(entry), NoBody)
    ELSE Ret("body", NoEntry, "none", b)

\* html_context: not given, a page without a sesskey, a page with one; the
\* /my/ page: its fetch raises, it has no sesskey, it has one.
Contexts == {NoStr, "page", "k_html"}
MyPages == {"raise", "page", "k_my"}
ExtractSesskey(page) == IF page \in {"k_html", "k_my"} THEN page ELSE NoStr
\* Lines 138-143 and 177-182: get_my_courses_page is called once, and only
\* when html_context gave no sesskey.
Fetches(h) == IF TruthyStr(ExtractSesskey(h)) THEN 0 ELSE 1

\* The sesskey of html_context and nothing else.
SentSesskey_ContextOnly(h, m) == ExtractSesskey(h)

\* Lines 134-145 and 173-185: the sesskey of html_context, else the one of
\* /my/ (a failing fetch is swallowed), else "".
SentSesskey(h, m) ==
  IF TruthyStr(ExtractSesskey(h)) THEN ExtractSesskey(h)
  ELSE IF TruthyStr(ExtractSesskey(m)) THEN ExtractSesskey(m)
  ELSE ""

\* What extract_fsresource_info meets on a page: the playerdata object
\* (absent, not JSON after the clean-up, without fsresourceid, with an int,
\* with a string of digits, with another string) and, for each of the four
\* patterns in their order, the number of its first match if it has one.
NoPlayerdata == <<"absent", NoInt>>
Playerdatas ==
  { NoPlayerdata, <<"unparsable", NoInt>>, <<"no_id", NoInt>>,
    <<"int", 4821>>, <<"digits", 4821>>, <<"word", NoInt>> }
Matches == {NoInt, 4821, 7}
FsPages == [playerdata : Playerdatas, patterns : [1..4 -> Matches]]
NoFsPage == [playerdata |-> NoPlayerdata, patterns |-> [i \in 1..4 |-> NoInt]]

\* Lines 244-271: the fsresourceid of the parsed playerdata, an int or a
\* string of digits; None otherwise (a failing parse is swallowed).
Structured(pd) == IF pd[1] \in {"int", "digits"} THEN pd[2] ELSE NoInt

\* Lines 280-288: the number matched by the first pattern that matches.
FirstMatch(ps) ==
  IF \E i \in 1..4 : ps[i] # NoInt
    THEN ps[CHOOSE i \in 1..4 : ps[i] # NoInt /\ \A j \in 1..(i - 1) : ps[j] = NoInt]
    ELSE NoInt

\* Lines 240-288: info["fsresourceid"] is set from playerdata and then set
\* again by the pattern loop whenever a pattern matches.
FsresourceId(h) ==
  IF FirstMatch(h.patterns) # NoInt THEN FirstMatch(h.patterns)
  ELSE Structured(h.playerdata)

\* No call of the client is under way.
ClientIdle ==
  /\ method = "none" /\ cpc = "idle"
  /\ max_retries = NoInt /\ attempt = 0 /\ last_exc = NoStr
  /\ answers = <<>> /\ slept = <<>>
  /\ returned = NoInt /\ raised = NoStr
  /\ html_context = NoStr /\ my_page = "page" /\ fetches = 0
  /\ sent_sesskey = NoStr /\ data = NoBody /\ result = NoResult
  /\ fs_html = NoFsPage /\ info = NoInt

(***************************************************************************)
(* Initial state: a job constructed by main() and not yet run.             *)
(***************************************************************************)
FreshRun ==
  /\ html = NoPage /\ sesskey = NoStr /\ sessiontimeout = NoInt
  /\ context_instance_id = NoInt /\ fsresourceid = NoInt
  /\ start = 0 /\ endT = 0 /\ calls = 0 /\ elapsed = 0
  /\ payload = NoPayload /\ progress_val = NoProgress /\ sleep_s = 0
  /\ now = 0
  /\ lastRpc = NoRpc /\ lastAt = NoInt /\ gap = NoInt /\ submits = 0
  /\ lastResp = NoResp /\ cm_resp = NoResp /\ prevTime = NoInt

Init ==
  /\ mode \in Modes
  /\ \E w \in Worlds :
       /\ site = w.pages
       /\ duration_seconds \in (IF mode = "probe" THEN {0} ELSE w.durations)
       /\ interval_seconds \in (IF mode = "probe" THEN {0} ELSE w.intervals)
       /\ payload_template \in w.templates
       /\ cli_target \in w.targets
       /\ gap_seconds \in (IF mode = "probe" THEN {5} ELSE w.gaps)
       /\ stop \in (IF mode = "probe" THEN {"none"} ELSE w.stops)
  /\ target_seconds = cli_target
  /\ video_id = (IF mode = "batch" THEN NoInt ELSE 9)
  /\ report = "none"
  /\ nIncomplete = NoInt /\ nItems = 0 /\ idx = 0 /\ prevOutcome = "none" /\ rested = NoInt
  /\ pc = (IF mode = "batch" THEN "scan" ELSE "fetch")
  /\ FreshRun
  /\ ClientIdle

\* One call of service.php, as the history records it: what it is for, what
\* the call before it in this run was for, and the sesskey the job had
\* resolved when it was issued.  (post_service's own fetch of /my/ for a
\* sesskey is a page fetch, not a call of the service.)
Rpc(kind) == [kind |-> kind, prev |-> lastRpc.kind, jobToken |-> sesskey]

(***************************************************************************)
(* WatchVideoJob.run                                                       *)
(***************************************************************************)
\* Lines 81-93: fetch the video page (client.get may raise) and resolve the
\* context from it; int() of a sessiontimeout that is no number raises.
FetchVideoPage ==
  /\ pc = "fetch" /\ mode = "batch"
  /\ \/ /\ pc' = "Raised"
        /\ report' = "raised"
        /\ UNCHANGED <<context, target_seconds>>
     \/ \E p \in site :
          /\ html' = p
          /\ IF Truthy(p.sessiontimeout) /\ IntRaises(p.sessiontimeout)
               THEN /\ pc' = "Raised"
                    /\ report' = "raised"
                    /\ UNCHANGED <<sesskey, sessiontimeout, context_instance_id,
                                   fsresourceid, target_seconds>>
               ELSE /\ sesskey' = ResolveSesskey(p)
                    /\ sessiontimeout' = ResolveTimeout(p)
                    /\ context_instance_id' = p.contextInstanceId
                    /\ fsresourceid' = p.fsresourceid
                    /\ target_seconds' = ResolveTarget(target_seconds, p)
                    /\ pc' = IF ~Truthy(p.fsresourceid) /\ Truthy(p.contextInstanceId)
                               THEN "lookup" ELSE "check"
                    /\ UNCHANGED report
  /\ UNCHANGED <<stop,
                 client, prevTime, cm_resp,
                 config, driver, poll, now, lastRpc, lastAt, gap, submits, lastResp>>

\* Lines 95-104 with get_course_module_info: one post_service call, made
\* before the sesskey check.  int() of a contextInstanceId that is no
\* number raises before the call; a raise of post_service leaves run(); an
\* error entry, an entry without data and any other shape give {}.
ModuleInfoLookup ==
  /\ pc = "lookup" /\ mode = "batch"
  /\ IF IntRaises(context_instance_id)
       THEN /\ pc' = "Raised"
            /\ report' = "raised"
            /\ UNCHANGED <<lastRpc, cm_resp, gap, lastAt, now, fsresourceid>>
       ELSE \E r \in Responses, lat \in Latencies :
              /\ lastRpc' = Rpc("module_info")
              /\ cm_resp' = r
              /\ gap' = (IF lastAt = NoInt THEN NoInt ELSE now - lastAt)
              /\ lastAt' = now
              /\ now' = now + lat
              /\ IF r.top = "raise"
                   THEN /\ pc' = "Raised"
                        /\ report' = "raised"
                        /\ UNCHANGED fsresourceid
                   ELSE /\ pc' = "check"
                        /\ fsresourceid' \in InstanceOf(r, fsresourceid)
                        /\ UNCHANGED report
  /\ UNCHANGED <<stop,
                 client, prevTime,
                 config, target_seconds, driver, html, sesskey, sessiontimeout,
                 context_instance_id, poll, submits, lastResp>>

\* Lines 112-122: no sesskey ends the run; an unresolved fsresourceid falls
\* back to the video id; the deadline is set.
CheckSesskey ==
  /\ pc = "check" /\ mode = "batch"
  /\ IF SesskeyMissing(sesskey)
       THEN /\ pc' = "Aborted"
            /\ report' = "no_sesskey"
            /\ UNCHANGED <<fsresourceid, start, endT, calls>>
       ELSE /\ pc' = "loop"
            /\ fsresourceid' = (IF ~Truthy(fsresourceid) THEN video_id ELSE fsresourceid)
            /\ start' = now
            /\ endT' = now + duration_seconds
            /\ calls' = 0
            /\ UNCHANGED report
  /\ UNCHANGED <<stop,
                 client, prevTime, cm_resp,
                 config, target_seconds, driver, html, sesskey, sessiontimeout,
                 context_instance_id, elapsed, payload, progress_val, sleep_s, now,
                 lastRpc, lastAt, gap, submits, lastResp>>

\* The test for a missing template left out.
TemplateMissing_Never(t) == FALSE

\* if not self.payload_template
TemplateMissing(t) == t = NoTemplate

\* Lines 123-177: the loop test and one iteration up to the POST.
LoopIteration ==
  /\ pc = "loop"
  /\ IF ~(now < endT)
       THEN /\ pc' = "TimedOut"
            /\ UNCHANGED <<calls, elapsed, payload, progress_val, sleep_s, report,
                           lastResp>>
       ELSE /\ calls' = calls + 1
            /\ elapsed' = now - start
            /\ lastResp' = NoResp
            /\ IF TemplateMissing(payload_template)
                 THEN /\ report' = "no_template"
                      /\ sleep_s' = interval_seconds
                      /\ pc' = "sleep"
                      /\ UNCHANGED <<payload, progress_val>>
                 ELSE IF ~JsonParses(payload_template)
                 THEN /\ report' = "template_error"
                      /\ pc' = "Aborted"
                      /\ UNCHANGED <<payload, progress_val, sleep_s>>
                 ELSE /\ payload' =
                           FillPayload(
                             Substitute(payload_template,
                                        TimeValue(now - start, duration_seconds),
                                        fsresourceid),
                             target_seconds, now - start, Timestamp(now))
                      /\ progress_val' = (IF Truthy(target_seconds)
                                            THEN ProgressVal(now - start, target_seconds)
                                            ELSE NoProgress)
                      /\ pc' = "post"
                      /\ UNCHANGED <<report, sleep_s>>
  /\ UNCHANGED <<stop,
                 client, prevTime, cm_resp,
                 config, target_seconds, driver, context, start, endT, now,
                 lastRpc, lastAt, gap, submits>>

\* Lines 180-205: post_service and the handling of what it returns or
\* raises; the sleep that follows is computed.
PostService ==
  /\ pc = "post" /\ mode = "batch"
  /\ \E r \in Responses, lat \in Latencies :
       /\ lastRpc' = Rpc("submit")
       /\ gap' = (IF lastAt = NoInt THEN NoInt ELSE now - lastAt)
       /\ lastAt' = now
       /\ submits' = submits + 1
       /\ lastResp' = r
       /\ prevTime' = SentTime(payload)
       /\ now' = now + lat
       /\ report' = (IF r.top = "raise" THEN "submit_failed" ELSE "submit_ok")
       /\ pc' = AfterResponse(r)
       /\ sleep_s' = (IF AfterResponse(r) = "sleep"
                        THEN SleepS(interval_seconds, sessiontimeout)
                        ELSE sleep_s)
  /\ UNCHANGED <<stop,
                 client, cm_resp,
                 config, target_seconds, driver, context, start, endT, calls,
                 elapsed, payload, progress_val>>

\* time.sleep(sleep_s) (lines 134 and 206)
SleepInterval ==
  /\ pc = "sleep"
  /\ now' = now + sleep_s
  /\ pc' = "loop"
  /\ UNCHANGED <<stop,
                 client,
                 config, target_seconds, driver, context, poll, history>>

\* Somebody outside asks the run under way to stop.  The loop of lines
\* 123-206 has one condition, time.time() < end, and the for loop of lines
\* 322-334 none: the request changes nothing the code looks at.
StopRequest ==
  /\ mode = "batch" /\ stop = "pending"
  /\ pc \in {"loop", "post", "sleep"}
  /\ stop' = "requested"
  /\ UNCHANGED <<client, config, target_seconds, driver, pc, context, poll, now,
                 history>>

(***************************************************************************)
(* ProbeServiceJob.run                                                     *)
(***************************************************************************)
\* Lines 228-237
ProbeFetchPage ==
  /\ pc = "fetch" /\ mode = "probe"
  /\ \/ /\ pc' = "Raised"
        /\ report' = "raised"
        /\ UNCHANGED context
     \/ \E p \in site :
          /\ html' = p
          /\ sesskey' = ResolveSesskey(p)
          /\ context_instance_id' = p.contextInstanceId
          /\ fsresourceid' = p.fsresourceid
          /\ pc' = IF ~Truthy(p.fsresourceid) /\ Truthy(p.contextInstanceId)
                     THEN "lookup" ELSE "build"
          /\ UNCHANGED <<report, sessiontimeout>>
  /\ UNCHANGED <<stop,
                 client, prevTime, cm_resp,
                 config, target_seconds, driver, poll, now, lastRpc, lastAt, gap,
                 submits, lastResp>>

\* Lines 238-243: the lookup sits in a try, a raise (of int() or of the
\* call) is swallowed.
ProbeLookup ==
  /\ pc = "lookup" /\ mode = "probe"
  /\ IF IntRaises(context_instance_id)
       THEN UNCHANGED <<lastRpc, cm_resp, gap, lastAt, now, fsresourceid>>
       ELSE \E r \in Responses, lat \in Latencies :
              /\ lastRpc' = Rpc("module_info")
              /\ cm_resp' = r
              /\ gap' = (IF lastAt = NoInt THEN NoInt ELSE now - lastAt)
              /\ lastAt' = now
              /\ now' = now + lat
              /\ fsresourceid' \in InstanceOf(r, fsresourceid)
  /\ pc' = "build"
  /\ UNCHANGED <<stop,
                 client, prevTime,
                 config, target_seconds, driver, html, sesskey, sessiontimeout,
                 context_instance_id, poll, submits, lastResp, report>>

\* Lines 245-268: no sesskey check; one post_service_capture call with
\* {time} = 3 unless the template is missing or does not parse.
ProbeSubmit ==
  /\ pc = "build" /\ mode = "probe"
  /\ fsresourceid' = (IF ~Truthy(fsresourceid) THEN video_id ELSE fsresourceid)
  /\ IF payload_template = NoTemplate
       THEN /\ report' = "no_template"
            /\ pc' = "ProbeDone"
            /\ UNCHANGED <<payload, now, lastRpc, lastAt, gap, submits, lastResp>>
       ELSE IF ~JsonParses(payload_template)
       THEN /\ report' = "template_error"
            /\ pc' = "ProbeDone"
            /\ UNCHANGED <<payload, now, lastRpc, lastAt, gap, submits, lastResp>>
       ELSE \E r \in Responses, lat \in Latencies :
              /\ payload' = Substitute(payload_template, 3,
                                       IF ~Truthy(fsresourceid) THEN video_id
                                       ELSE fsresourceid)
              /\ lastRpc' = Rpc("submit")
              /\ gap' = (IF lastAt = NoInt THEN NoInt ELSE now - lastAt)
              /\ lastAt' = now
              /\ submits' = submits + 1
              /\ lastResp' = r
              /\ now' = now + lat
              /\ report' = (IF r.top = "raise" THEN "raised" ELSE "probed")
              /\ pc' = (IF r.top = "raise" THEN "Raised" ELSE "ProbeDone")
  /\ UNCHANGED <<stop,
                 client, prevTime, cm_resp,
                 config, target_seconds, driver, html, sesskey, sessiontimeout,
                 context_instance_id, start, endT, calls, elapsed, progress_val,
                 sleep_s>>

(***************************************************************************)
(* WatchCourseIncompleteJob.run                                            *)
(***************************************************************************)
Limits == {NoInt, 0, 1}
\* A run that ends in Aborted not handed back to the driver.
Terminal_NoAbort == {"Completed", "TimedOut"}

\* The states in which WatchVideoJob.run has returned.
Terminal == {"Completed", "TimedOut", "Aborted"}
Outcome == IF pc = "Aborted" THEN report ELSE pc

\* The check for an empty list left out.
NothingToDo_Never(n) == FALSE

\* if not items: ... return
NothingToDo(n) == n = 0

\* Lines 313-324: the course page is fetched (client.get may raise); n
\* items are incomplete; none ends the run, else the list is cut to limit
\* and the first job is constructed.
BatchScan ==
  /\ pc = "scan" /\ mode = "batch"
  /\ \/ /\ pc' = "Raised"
        /\ report' = "raised"
        /\ UNCHANGED <<nIncomplete, nItems, idx, video_id>>
     \/ \E n \in 0..MaxItems, limit \in Limits :
          LET kept == IF limit = NoInt THEN n ELSE Min(n, limit)
          IN  /\ nIncomplete' = n
              /\ nItems' = kept
              /\ IF NothingToDo(n)
                   THEN /\ report' = "nothing_to_do"
                        /\ pc' = "BatchDone"
                        /\ UNCHANGED <<idx, video_id>>
                   ELSE IF kept = 0
                   THEN /\ report' = "prepared"
                        /\ pc' = "BatchDone"
                        /\ UNCHANGED <<idx, video_id>>
                   ELSE /\ report' = "prepared"
                        /\ idx' = 1
                        /\ video_id' = 101
                        /\ pc' = "fetch"
  /\ UNCHANGED <<stop,
                 client, gap_seconds, rested, prevTime, cm_resp,
                 site, mode, duration_seconds, interval_seconds, payload_template,
                 cli_target, target_seconds, prevOutcome, context, poll, now,
                 lastRpc, lastAt, gap, submits, lastResp>>

\* The driver leaving the loop after the first item.
HasNext_Never(i, n) == FALSE

\* for idx, it in enumerate(items, 1): is there an item after item i of n?
HasNext(i, n) == i < n

\* The driver going on without a pause.
GapSleep_None(g) == 0

\* time.sleep(self.gap_seconds): the seconds the driver rests after a run
GapSleep(g) == g

\* Lines 322-334: job.run() returned; time.sleep(gap_seconds); the next
\* item's job is constructed, or the loop is over.  rested records the
\* pause between the run that ended and what follows.
BatchNext ==
  /\ mode = "batch" /\ pc \in Terminal
  /\ prevOutcome' = Outcome
  /\ rested' = GapSleep(gap_seconds)
  /\ IF HasNext(idx, nItems)
       THEN /\ idx' = idx + 1
            /\ video_id' = 100 + idx + 1
            /\ pc' = "fetch"
       ELSE /\ pc' = "BatchDone"
            /\ UNCHANGED <<idx, video_id>>
  /\ target_seconds' = cli_target
  /\ html' = NoPage /\ sesskey' = NoStr /\ sessiontimeout' = NoInt
  /\ context_instance_id' = NoInt /\ fsresourceid' = NoInt
  /\ start' = 0 /\ endT' = 0 /\ calls' = 0 /\ elapsed' = 0
  /\ payload' = NoPayload /\ progress_val' = NoProgress /\ sleep_s' = 0
  /\ now' = 0
  /\ lastRpc' = NoRpc /\ lastAt' = NoInt /\ gap' = NoInt /\ submits' = 0
  /\ lastResp' = NoResp /\ report' = "none" /\ cm_resp' = NoResp /\ prevTime' = NoInt
  /\ UNCHANGED <<stop,
                 client,
                 site, mode, duration_seconds, interval_seconds, payload_template,
                 cli_target, gap_seconds, nIncomplete, nItems>>

Next ==
  \/ FetchVideoPage
  \/ ModuleInfoLookup
  \/ CheckSesskey
  \/ LoopIteration
  \/ PostService
  \/ SleepInterval
  \/ StopRequest
  \/ ProbeFetchPage
  \/ ProbeLookup
  \/ ProbeSubmit
  \/ BatchScan
  \/ BatchNext

Spec == Init /\ [][Next]_vars

(***************************************************************************)
(* MoodleClient.get, call_ajax_service, post_service and                   *)
(* extract_fsresource_info, on their own                                  *)
(***************************************************************************)
\* No job is constructed.
EngineIdle ==
  /\ site = {} /\ mode = "none"
  /\ duration_seconds = 0 /\ interval_seconds = 0
  /\ payload_template = NoTemplate /\ cli_target = NoInt /\ gap_seconds = 0 /\ stop = "none"
  /\ target_seconds = NoInt /\ video_id = NoInt
  /\ nIncomplete = NoInt /\ nItems = 0 /\ idx = 0 /\ prevOutcome = "none"
  /\ rested = NoInt /\ report = "none" /\ pc = "none"
  /\ FreshRun

\* A call of get(path) with max_retries given, or a call of
\* call_ajax_service with what the server will answer.
InitClient ==
  /\ EngineIdle
  /\ method \in {"get", "call_ajax_service", "post_service",
                 "extract_fsresource_info"}
  /\ cpc = "try" /\ fetches = 0 /\ info = NoInt
  /\ fs_html \in (IF method = "extract_fsresource_info" THEN FsPages ELSE {NoFsPage})
  /\ last_exc = NoStr /\ answers = <<>> /\ slept = <<>>
  /\ returned = NoInt /\ raised = NoStr
  /\ sent_sesskey = NoStr /\ result = NoResult
  /\ IF method = "get"
       THEN /\ max_retries \in 0..MaxRetries /\ attempt = 1
            /\ html_context = NoStr /\ my_page = "page" /\ data = NoBody
     ELSE IF method = "extract_fsresource_info"
       THEN /\ max_retries = NoInt /\ attempt = 0
            /\ html_context = NoStr /\ my_page = "page" /\ data = NoBody
       ELSE /\ max_retries = NoInt /\ attempt = 0
            /\ html_context \in Contexts /\ my_page \in MyPages /\ data \in Bodies

\* Lines 34-48: one pass of the for loop of get.
GetAttempt ==
  /\ method = "get" /\ cpc = "try"
  /\ ~Exhausted(attempt, max_retries)
  /\ \E a \in Answers :
       /\ answers' = Append(answers, a)
       /\ IF a = NoStatus
            THEN /\ last_exc' = "ConnectionError"
                 /\ slept' = Append(slept, BackoffSleep(attempt))
                 /\ attempt' = attempt + 1
                 /\ UNCHANGED <<cpc, returned>>
          ELSE IF a = 200
            THEN /\ returned' = a
                 /\ cpc' = "Returned"
                 /\ UNCHANGED <<last_exc, slept, attempt>>
          ELSE IF a \in RetryStatuses
            THEN /\ slept' = Append(slept, BackoffSleep(attempt))
                 /\ attempt' = attempt + 1
                 /\ UNCHANGED <<cpc, returned, last_exc>>
          ELSE IF RaisesForStatus(a)
            THEN /\ last_exc' = "HTTPError"
                 /\ slept' = Append(slept, BackoffSleep(attempt))
                 /\ attempt' = attempt + 1
                 /\ UNCHANGED <<cpc, returned>>
            ELSE /\ returned' = a
                 /\ cpc' = "Returned"
                 /\ UNCHANGED <<last_exc, slept, attempt>>
  /\ UNCHANGED <<engine, method, max_retries, raised, gateway, extraction>>

\* Lines 49-51: the loop is over without a return.
GetGiveUp ==
  /\ method = "get" /\ cpc = "try"
  /\ Exhausted(attempt, max_retries)
  /\ raised' = (IF last_exc # NoStr THEN last_exc ELSE "RuntimeError")
  /\ cpc' = "Failed"
  /\ UNCHANGED <<engine, method, transport, returned, gateway, extraction>>

\* Lines 127-165: call_ajax_service, from the sesskey to the return.
CallAjaxService ==
  /\ method = "call_ajax_service" /\ cpc = "try"
  /\ fetches' = Fetches(html_context)
  /\ sent_sesskey' = SentSesskey(html_context, my_page)
  /\ IF data.top = "http_error"
       THEN raised' = "HTTPError" /\ cpc' = "Failed" /\ UNCHANGED result
     ELSE IF data.top = "not_json"
       THEN raised' = "JSONDecodeError" /\ cpc' = "Failed" /\ UNCHANGED result
     ELSE IF Unwrap(data).what = "raise"
       THEN raised' = Unwrap(data).value /\ cpc' = "Failed" /\ UNCHANGED result
     ELSE result' = Unwrap(data) /\ cpc' = "Returned" /\ UNCHANGED raised
  /\ UNCHANGED <<engine, method, transport, returned, html_context, my_page, data,
               extraction>>

\* Lines 167-195: post_service, from the sesskey to the return of the
\* decoded body as it is.
PostServiceCall ==
  /\ method = "post_service" /\ cpc = "try"
  /\ fetches' = Fetches(html_context)
  /\ sent_sesskey' = SentSesskey(html_context, my_page)
  /\ IF data.top = "http_error"
       THEN raised' = "HTTPError" /\ cpc' = "Failed" /\ UNCHANGED result
     ELSE IF data.top = "not_json"
       THEN raised' = "JSONDecodeError" /\ cpc' = "Failed" /\ UNCHANGED result
     ELSE result' = Ret("body", NoEntry, "none", data) /\ cpc' = "Returned"
          /\ UNCHANGED raised
  /\ UNCHANGED <<engine, method, transport, returned, html_context, my_page, data,
               extraction>>

\* Lines 234-309: extract_fsresource_info, as far as the fsresourceid.
ExtractFsresourceInfo ==
  /\ method = "extract_fsresource_info" /\ cpc = "try"
  /\ info' = FsresourceId(fs_html)
  /\ cpc' = "Returned"
  /\ UNCHANGED <<engine, method, transport, returned, raised, gateway, fs_html>>

NextClient ==
  \/ GetAttempt
  \/ GetGiveUp
  \/ CallAjaxService
  \/ PostServiceCall
  \/ ExtractFsresourceInfo

SpecClient == InitClient /\ [][NextClient]_vars

(***************************************************************************)
(* Claims                                                                  *)
(***************************************************************************)
InEngine == mode = "batch" /\ pc \in {"loop", "post", "sleep"} \cup Terminal
Submitted == lastResp # NoResp

\* C1: no call of the service endpoint (the Resolving step's module-info
\* lookup or a submission, of the engine or of the probe) is issued while
\* the job's resolved sesskey is absent.
C1_NoRpcWithoutToken ==
  lastRpc.kind # "none" => TruthyStr(lastRpc.jobToken)

\* C2: once Resolving is over with no sesskey resolved, the run has reported
\* it and is Aborted, the loop was never entered (calls = 0) and no progress
\* submission was sent.
C2_AbortWithoutToken ==
  (InEngine /\ ~TruthyStr(sesskey)) =>
    (pc = "Aborted" /\ report = "no_sesskey" /\ calls = 0 /\ submits = 0)
C2_Witness ==
  pc = "Aborted" /\ report = "no_sesskey" /\ lastRpc.kind = "module_info"

\* C3: a submission whose unwrapped response is a dict with completion
\* "已完成" ends the run in Completed on that iteration, whatever time is
\* left; from Completed the only step is the driver's move to the next item,
\* so no further call and no further sleep happen for that resource.
CompletionSignal(r) ==
  \/ r.top = "list" /\ r.data = "done"
  \/ r.top = "list" /\ r.data = "none" /\ r.own
  \/ r.top = "dict" /\ r.own
C3_CompletedAtOnce ==
  /\ [](mode = "batch" /\ CompletionSignal(lastResp) => pc = "Completed")
  /\ [][pc = "Completed" =>
          (pc' \in {"fetch", "BatchDone"} /\ submits' = 0 /\ lastRpc' = NoRpc)]_vars
C3_Witness ==
  pc = "Completed" /\ CompletionSignal(lastResp) /\ now + interval_seconds < endT

\* C4: a submission that raises (HTTP failure or undecodable body) is
\* reported as failed for that iteration and does not end the run: the
\* engine sleeps, and if the deadline has not passed the next iteration runs
\* (the steps are those of the job: stop is not written by it).
C4_FailureContinues ==
  /\ [](mode = "batch" /\ lastResp.top = "raise" =>
          (report = "submit_failed" /\ pc \in {"sleep", "loop", "TimedOut"}))
  /\ [][(mode = "batch" /\ lastResp.top = "raise" /\ pc = "sleep"
                         /\ stop' = stop) =>
          (pc' = "loop" /\ now' = now + sleep_s)]_vars
  /\ [][(lastResp.top = "raise" /\ pc = "loop" /\ now < endT /\ stop' = stop) =>
          (calls' = calls + 1 /\ pc' = "post")]_vars
C4_Witness ==
  pc = "post" /\ calls = 2 /\ submits = 1 /\ report = "submit_failed"

\* C5: a response whose entry 0 carries an error is reported as a failed
\* submission and is not taken as a completion signal.
C5_ErrorEntryIsFailure ==
  (mode = "batch" /\ lastResp.top = "list" /\ lastResp.error) =>
    (report = "submit_failed" /\ pc # "Completed")

\* C6: a template that does not parse as JSON after substitution ends the
\* run in Aborted in that iteration, with no submission sent in it and no
\* later iteration; the batch driver can, and can only, go on to the next
\* resource (or finish when there is none).
C6_TemplateAbort ==
  /\ [](mode = "batch" /\ report = "template_error" =>
          (pc = "Aborted" /\ ~Submitted /\ submits = 0 /\ ENABLED BatchNext))
  /\ [][(pc = "Aborted" /\ report = "template_error") =>
          (/\ pc' = (IF idx < nItems THEN "fetch" ELSE "BatchDone")
           /\ idx' = (IF idx < nItems THEN idx + 1 ELSE idx)
           /\ calls' = 0 /\ submits' = 0)]_vars
C6_Witness ==
  pc = "fetch" /\ idx = 2 /\ prevOutcome = "template_error"

\* C7: the progress fraction computed in an iteration lies in [0, 1] and is
\* 1 when elapsed exceeds the target; with a target that is 0 or absent no
\* fraction is computed and neither progress nor finish is written.
Built == mode = "batch" /\ pc = "post"
Templated(a) == a \in DOMAIN payload.args => payload.args[a] = <<"tpl", 0>>
C7_ProgressInUnitInterval ==
  Built =>
    IF Truthy(target_seconds)
      THEN /\ progress_val[2] > 0
           /\ 0 <= progress_val[1] /\ progress_val[1] <= progress_val[2]
           /\ (elapsed > target_seconds => progress_val[1] = progress_val[2])
      ELSE /\ progress_val = NoProgress
           /\ Templated("progress") /\ Templated("finish")
C7_Witness ==
  Built /\ Truthy(target_seconds) /\ elapsed > target_seconds
        /\ progress_val = One /\ "progress" \in DOMAIN payload.args

\* C8 as stated: the submitted envelope has exactly the argument names the
\* substituted template declared, and with a template that has no progress
\* argument the envelope is submitted unchanged.
AsTemplated == Substitute(payload_template, Min(elapsed, duration_seconds), fsresourceid)
C8_Original ==
  Built =>
    /\ DOMAIN payload.args = payload_template.args
    /\ ("progress" \notin payload_template.args => payload = AsTemplated)

\* C8 as amended: the submitted envelope has exactly the argument names the
\* substituted template declared; only progress, finish and unique are ever
\* overwritten, so with a template that has no progress argument none is
\* submitted and every argument but finish and unique is as templated.
C8_NoFieldAdded ==
  Built =>
    /\ payload.kind = payload_template.kind
    /\ DOMAIN payload.args = payload_template.args
    /\ \A a \in DOMAIN payload.args :
         a \notin {"progress", "finish", "unique"} => payload.args[a] = AsTemplated.args[a]
    /\ (payload_template.args \cap {"progress", "finish", "unique"} = {}
          => payload = AsTemplated)
C8_Witness ==
  Built /\ "progress" \notin DOMAIN payload.args /\ "unique" \in DOMAIN payload.args
        /\ payload # AsTemplated

\* min(interval, sessionTimeout / 2) doubled, to stay in whole numbers;
\* interval when no session timeout was resolved.
TwiceMinGap ==
  IF sessiontimeout = NoInt THEN 2 * interval_seconds
  ELSE Min(2 * interval_seconds, sessiontimeout)

\* C9 as stated: any two calls of the service endpoint in one run are at
\* least min(interval, sessionTimeout / 2) seconds apart.
C9_Original ==
  (mode = "batch" /\ gap # NoInt) => 2 * gap >= TwiceMinGap

\* C9 as amended: any two consecutive progress submissions of one run are at
\* least min(interval, sessionTimeout // 2) seconds apart, the half rounded
\* down (interval when no session timeout was resolved); the module-info
\* lookup of Resolving may precede the first submission by less.
C9_SubmissionsApart ==
  (mode = "batch" /\ gap # NoInt /\ lastRpc.kind = "submit" /\ lastRpc.prev = "submit") =>
    gap >= (IF sessiontimeout = NoInt THEN interval_seconds
            ELSE Min(interval_seconds, sessiontimeout \div 2))
C9_Witness ==
  /\ mode = "batch" /\ gap # NoInt
  /\ lastRpc.kind = "submit" /\ lastRpc.prev = "submit"
  /\ Truthy(sessiontimeout) /\ interval_seconds > sessiontimeout
  /\ gap < interval_seconds

\* C10: with a session timeout resolved, the sleep after a submission is
\* shorter than that timeout.
C10_SleepBelowTimeout ==
  (mode = "batch" /\ pc = "sleep" /\ Submitted /\ sessiontimeout # NoInt) =>
    sleep_s < sessiontimeout

\* C11: in a batch run, a resource's run that ends in Completed, in TimedOut
\* or in Aborted (template failure or unresolved sesskey) hands control back
\* to the driver, whose one possible step starts the run of the next item
\* of the truncated list when there is one; a batch that finishes has
\* started a run for every item of that list.
C11_DriverContinues ==
  /\ [](mode = "batch" /\ pc \in Terminal => ENABLED BatchNext)
  /\ [][(mode = "batch" /\ pc \in Terminal) =>
          IF idx < nItems
            THEN pc' = "fetch" /\ idx' = idx + 1 /\ video_id' = 100 + idx'
            ELSE pc' = "BatchDone" /\ idx' = idx]_vars
  /\ [](pc = "BatchDone" => idx = nItems)
C11_Witness ==
  pc = "BatchDone" /\ idx = 2 /\ nItems = 2 /\ prevOutcome = "no_sesskey"

\* C12: a transport failure while the driver handles one resource (here the
\* fetch of that resource's page, at the start of its run) does not abort
\* the batch run: with resources left, the driver can go on to the next.
C12_BatchSurvivesFailure ==
  (mode = "batch" /\ pc = "Raised" /\ html = NoPage /\ 1 <= idx /\ idx < nItems)
    => ENABLED BatchNext


\* C13: a module-info lookup of Resolving that fails (the call raises on an
\* HTTP failure or an undecodable body, or entry 0 carries an error) does
\* not take the run out of WatchVideoJob.run: the fsresourceid stays
\* unresolved up to the sesskey check, and past that check a run with a
\* sesskey has fallen back to the video id and is in (or through) the loop,
\* a run without one is Aborted.
LookupFailed(r) == r.top = "raise" \/ (r.top = "list" /\ r.error)
C13_LookupFailureDegrades ==
  (mode = "batch" /\ LookupFailed(cm_resp)) =>
    /\ pc # "Raised"
    /\ (pc = "check" => ~Truthy(fsresourceid))
    /\ (pc # "check" =>
          IF TruthyStr(sesskey)
            THEN fsresourceid = video_id /\ pc \in {"loop", "post", "sleep"} \cup Terminal
            ELSE pc = "Aborted")


\* C14: a discovery that yields no incomplete resource ends the batch run
\* with the report that there is nothing to do; no run was started (no
\* item index, no page fetched, no iteration), no call of service.php was
\* made, and nothing happens afterwards.
C14_NothingToDo ==
  /\ [](mode = "batch" /\ nIncomplete = 0 =>
          /\ pc = "BatchDone" /\ report = "nothing_to_do"
          /\ idx = 0 /\ html = NoPage /\ calls = 0
          /\ submits = 0 /\ lastRpc = NoRpc /\ cm_resp = NoResp)
  /\ [][nIncomplete # 0]_vars
C14_Witness ==
  mode = "batch" /\ nIncomplete = 0 /\ pc = "BatchDone"


\* C15: within one run the submissions come one after the other: each is
\* issued from the iteration that built it and has returned or failed
\* before anything else happens, and the value standing for {time} in a
\* submission is never smaller than the one of the submission before it.
C15_SequentialAndOrdered ==
  /\ [](Built /\ prevTime # NoInt => SentTime(payload) >= prevTime)
  /\ [][(mode = "batch" /\ submits' # submits /\ submits' # 0) =>
          /\ pc = "post" /\ pc' \in {"sleep", "Completed"}
          /\ submits' = submits + 1 /\ lastResp = NoResp /\ lastResp' # NoResp
          /\ prevTime' = SentTime(payload)]_vars
C15_Witness ==
  Built /\ submits = 2 /\ prevTime # NoInt /\ SentTime(payload) > prevTime


\* C16: the driver runs the items one at a time in list order: the first
\* run starts from the scan; every later run starts from a terminal state
\* of the run of the item just before it in the list, after a pause of
\* gap_seconds, and with nothing of the earlier run left (no call sent, no
\* page, no iteration).
C16_OneAtATime ==
  /\ [][(mode = "batch" /\ pc' = "fetch" /\ pc # "fetch") =>
          \/ pc = "scan" /\ idx' = 1 /\ video_id' = 101 /\ rested' = NoInt
          \/ /\ pc \in Terminal /\ idx >= 1
             /\ idx' = idx + 1 /\ video_id' = video_id + 1
             /\ rested' = gap_seconds]_vars
  /\ [](mode = "batch" /\ pc = "fetch" =>
          /\ 1 <= idx /\ idx <= nItems /\ video_id = 100 + idx
          /\ html = NoPage /\ calls = 0 /\ submits = 0
          /\ lastRpc = NoRpc /\ lastResp = NoResp)
C16_Witness ==
  pc = "fetch" /\ idx = 2 /\ rested = 5 /\ prevOutcome = "TimedOut"


\* C17: a call of get with max_retries = N all of whose attempts are
\* answered 503 makes N requests, no more, and then leaves with an
\* exception, never with a response; an attempt answered 200 ends the call
\* with that response in the same step, without a sleep, and nothing (no
\* request, no sleep) follows a return.
AllBusy == \A i \in DOMAIN answers : answers[i] = 503
C17_RetriesThenFails ==
  /\ [](method = "get" /\ AllBusy =>
          /\ Len(answers) <= max_retries /\ cpc # "Returned"
          /\ (cpc = "Failed" =>
                Len(answers) = max_retries /\ raised # NoStr /\ returned = NoInt)
          /\ (cpc = "try" /\ Len(answers) = max_retries =>
                ENABLED GetGiveUp /\ ~ENABLED GetAttempt))
  /\ [][(method = "get" /\ Len(answers') > Len(answers)
                         /\ answers'[Len(answers')] = 200) =>
          (cpc' = "Returned" /\ returned' = 200 /\ slept' = slept)]_vars
  /\ [][~(method = "get" /\ cpc = "Returned")]_vars
C17_Witness ==
  /\ method = "get" /\ cpc = "Failed" /\ max_retries = 3
  /\ answers = <<503, 503, 503>> /\ raised = "RuntimeError"


\* C18: a first answer with an error status outside 429 and 5xx (404) ends
\* the call of get there: one request, no backoff sleep, and the failure
\* handed to the caller.
C18_NoRetryOn404 ==
  (method = "get" /\ Len(answers) >= 1 /\ answers[1] = 404) =>
    /\ Len(answers) = 1 /\ slept = <<>>
    /\ cpc # "Returned" /\ (cpc = "Failed" => raised = "HTTPError")


\* A call of call_ajax_service that is over and had a body to decode.
Unwrapped ==
  /\ method = "call_ajax_service" /\ cpc \in {"Returned", "Failed"}
  /\ data.top \notin {"http_error", "not_json"}
NonEmptyList == data.top = "list" /\ Len(data.entries) > 0

\* C20 as stated: for a non-empty list the call returns the error indicator
\* of entry 0 as a value when entry 0 carries one, otherwise the data member
\* of entry 0; anything that is no list is returned unchanged.
C20_Original ==
  Unwrapped =>
    /\ cpc = "Returned"
    /\ IF NonEmptyList
         THEN /\ result.what = "value"
              /\ result.value = (IF TruthyJson(data.entries[1].error)
                                   THEN data.entries[1].error
                                   ELSE GetData(data.entries[1]))
         ELSE (data.top # "list" => result.what = "body" /\ result.body = data)

\* C20 as amended: for a non-empty list whose entry 0 is a mapping the call
\* returns entry 0 itself, whole, when its error member is truthy, and
\* otherwise its data member (null when there is none); an entry 0 that is
\* no mapping makes the call raise; an empty list and anything that is no
\* list are returned unchanged.
C20_Unwrapping ==
  Unwrapped =>
    IF NonEmptyList /\ data.entries[1].kind = "map"
      THEN /\ cpc = "Returned"
           /\ IF TruthyJson(data.entries[1].error)
                THEN result.what = "entry" /\ result.entry = data.entries[1]
                ELSE /\ result.what = "value"
                     /\ result.value = (IF data.entries[1].data = "absent" THEN "null"
                                        ELSE data.entries[1].data)
    ELSE IF NonEmptyList
      THEN cpc = "Failed" /\ raised = "AttributeError" /\ result = NoResult
      ELSE cpc = "Returned" /\ result.what = "body" /\ result.body = data
C20_Witness ==
  /\ Unwrapped /\ NonEmptyList /\ cpc = "Returned"
  /\ result.what = "entry" /\ result.entry = Entry("map", "message", "payload")


\* C19: resolving the context from a fetched page never raises: a page
\* whose sessiontimeout or contextInstanceId is no number does not take the
\* run out of WatchVideoJob.run, and the timeout it could not read is
\* absent from the context.
MalformedPage ==
  html # NoPage /\ (html.sessiontimeout = NotNumeric \/ html.contextInstanceId = NotNumeric)
C19_ResolvingNeverRaises ==
  (mode = "batch" /\ MalformedPage) =>
    /\ pc # "Raised"
    /\ (html.sessiontimeout = NotNumeric => sessiontimeout = NoInt)


\* C21: a request to stop that has arrived by the top of an iteration or
\* during a sleep is honoured there: no further iteration is counted, no
\* further call is sent, and the loop is left instead of going on to a
\* submission or another sleep.
C21_StopTakesEffect ==
  [][(mode = "batch" /\ stop = "requested" /\ pc \in {"loop", "sleep"}) =>
       /\ calls' <= calls /\ submits' <= submits
       /\ (pc = "loop" => pc' \notin {"post", "sleep"})]_vars


\* C22: a run of the engine ends in one of Completed, TimedOut and Aborted
\* and nowhere else: as long as it is at none of them it has a step to
\* take (network calls return or fail, sleeps end), and at one of them the
\* only step is the driver's.
C22_EndsInTerminalOutcome ==
  (mode = "batch" /\ idx >= 1 /\ pc # "BatchDone") =>
    IF pc \in Terminal
      THEN ~ENABLED (LoopIteration \/ PostService \/ SleepInterval)
      ELSE ENABLED (FetchVideoPage \/ ModuleInfoLookup \/ CheckSesskey
                      \/ LoopIteration \/ PostService \/ SleepInterval)


\* An iteration has submitted and the engine is about to sleep.
AfterSubmit == mode = "batch" /\ pc = "sleep" /\ Submitted
Shortened == sessiontimeout # NoInt /\ interval_seconds > sessiontimeout

\* C23 as stated: after an iteration that submitted the engine sleeps the
\* interval, or max(30, sessionTimeout / 2) when a session timeout was
\* resolved and the interval exceeds it (both sides doubled, to stay in
\* whole numbers).
C23_Original ==
  AfterSubmit =>
    2 * sleep_s = (IF Shortened THEN Max(2 * MinShortSleep, sessiontimeout)
                   ELSE 2 * interval_seconds)

\* C23 as amended: after an iteration that submitted and did not end the
\* run the engine sleeps the interval, or max(30, sessionTimeout // 2), the
\* half rounded down, when a session timeout was resolved and the interval
\* exceeds it; the clock has moved by just that much at the next iteration.
C23_SleepLength ==
  /\ [](AfterSubmit =>
          sleep_s = (IF Shortened THEN Max(MinShortSleep, sessiontimeout \div 2)
                     ELSE interval_seconds))
  /\ [][AfterSubmit => (pc' = "sleep" \/ (pc' = "loop" /\ now' = now + sleep_s))]_vars
C23_Witness ==
  AfterSubmit /\ sessiontimeout = 61 /\ interval_seconds = 100 /\ sleep_s = 30

\* C24: the adjustment to the session timeout only shortens the sleep: the
\* sleep after a submission is never longer than the configured interval.
C24_NeverLonger ==
  AfterSubmit => sleep_s <= interval_seconds


\* C25: an iteration of a run without a template is counted, sends
\* nothing and leads to a sleep of the configured interval; a run without
\* a template never submits, and once past the sesskey check it can only
\* end in TimedOut.
C25_NoTemplateNoCall ==
  /\ [][(mode = "batch" /\ payload_template = NoTemplate /\ calls' = calls + 1) =>
          /\ pc = "loop" /\ pc' = "sleep" /\ sleep_s' = interval_seconds
          /\ submits' = submits /\ lastRpc' = lastRpc /\ lastAt' = lastAt]_vars
  /\ [][(mode = "batch" /\ payload_template = NoTemplate /\ pc = "sleep") =>
          (pc' = "sleep" \/ (pc' = "loop" /\ now' = now + interval_seconds))]_vars
  /\ [](mode = "batch" /\ payload_template = NoTemplate =>
          /\ submits = 0 /\ lastRpc.kind # "submit" /\ ~Submitted
          /\ pc \notin {"post", "Completed"}
          /\ (pc = "Aborted" => report = "no_sesskey" /\ calls = 0))
C25_Witness ==
  /\ mode = "batch" /\ payload_template = NoTemplate
  /\ pc = "TimedOut" /\ calls = 3 /\ submits = 0 /\ report = "no_template"


\* C26: a run that resolved a sesskey and got no fsresourceid, neither
\* from the page nor from the module-info lookup, is not ended by that: it
\* goes through the sesskey check into the loop with the video id in the
\* place of the fsresourceid, and every submission it builds carries the
\* video id for {fsresourceid}.
NoIdResolved ==
  /\ html # NoPage /\ ~Truthy(html.fsresourceid) /\ TruthyStr(ResolveSesskey(html))
  /\ ~IntRaises(html.sessiontimeout) /\ ~IntRaises(html.contextInstanceId)
  /\ pc \notin {"fetch", "lookup"}
  /\ (cm_resp # NoResp => fsresourceid \in {NoInt, video_id})
C26_FallsBackToVideoId ==
  (mode = "batch" /\ NoIdResolved) =>
    /\ pc # "Raised"
    /\ (pc # "check" => fsresourceid = video_id)
    /\ (pc = "post" /\ "fsresourceid" \in DOMAIN payload.args => SentId(payload) = video_id)


\* C27: a submission built with a known target from a template that
\* declares finish carries the flag 1 when the clamped fraction is at least
\* 999 thousandths and 0 when it is less; with no target known the flag is
\* as templated.
C27_FinishFlag ==
  (Built /\ "finish" \in DOMAIN payload.args) =>
    IF Truthy(target_seconds)
      THEN /\ payload.args["finish"][1] = "flag"
           /\ payload.args["finish"][2] \in {0, 1}
           /\ (payload.args["finish"][2] = 1 <=>
                 1000 * Min(Max(elapsed, 0), target_seconds) >= 999 * target_seconds)
      ELSE payload.args["finish"] = <<"tpl", 0>>
C27_Witness ==
  /\ Built /\ target_seconds = 1000 /\ elapsed = 999
  /\ payload.args["finish"] = <<"flag", 1>>


\* C28: in get, the pause after the k-th attempt is backoff * k whether
\* that attempt ended in status 429, in a 5xx status or in a transport
\* exception, and a call whose last attempt ended in an exception fails with
\* the exception of that attempt.
Is5xx(a) == a >= 500 /\ a < 600
Excepted(a) == a = NoStatus \/ (a >= 400 /\ a \notin RetryStatuses)
C28_BackoffSchedule ==
  method = "get" =>
    /\ \A k \in 1..Len(answers) :
         (answers[k] = 429 \/ Is5xx(answers[k]) \/ answers[k] = NoStatus) =>
           (k <= Len(slept) /\ slept[k] = BackoffTenths * k)
    /\ (cpc = "Failed" /\ answers # <<>> /\ Excepted(answers[Len(answers)])) =>
         raised = (IF answers[Len(answers)] = NoStatus
                     THEN "ConnectionError" ELSE "HTTPError")
C28_Witness ==
  /\ method = "get" /\ cpc = "Failed"
  /\ answers = <<NoStatus, 429, 501>>
  /\ slept = <<BackoffTenths, 2 * BackoffTenths, 3 * BackoffTenths>>
  /\ raised = "HTTPError"


\* C29: a call of post_service or call_ajax_service whose html_context gives
\* no sesskey fetches the /my/ page once; when that fetch raises or its page
\* has no sesskey either, the request to service.php is still made, with
\* sesskey "", and the call fails only by what that request met.
GatewayDone ==
  /\ method \in {"post_service", "call_ajax_service"}
  /\ cpc \in {"Returned", "Failed"}
NoTokenInContext == html_context \in {NoStr, "page"}
C29_EmptyTokenStillSent ==
  (GatewayDone /\ NoTokenInContext) =>
    /\ fetches = 1
    /\ my_page \in {"raise", "page"} =>
         /\ sent_sesskey = ""
         /\ (cpc = "Failed" /\ data.top \notin {"http_error", "not_json"}) =>
              (method = "call_ajax_service" /\ raised = "AttributeError")
C29_Witness ==
  /\ method = "post_service" /\ cpc = "Returned"
  /\ html_context = "page" /\ my_page = "raise"
  /\ fetches = 1 /\ sent_sesskey = ""


\* C30: the fsresourceid returned by extract_fsresource_info is the one of
\* the playerdata object whenever that object parses and carries one, and
\* the one of the first matching pattern only when playerdata gave none.
C30_PlayerdataFirst ==
  (method = "extract_fsresource_info" /\ cpc = "Returned") =>
    info = (IF Structured(fs_html.playerdata) # NoInt
              THEN Structured(fs_html.playerdata)
              ELSE FirstMatch(fs_html.patterns))


\* C31: in a submission built with a known target from a template that
\* declares both progress and finish, a finish flag of 1 goes only with the
\* progress string "1.00" (100 hundredths).
C31_FinishOnlyAtFullProgress ==
  ( /\ Built /\ Truthy(target_seconds)
    /\ {"progress", "finish"} \subseteq DOMAIN payload.args
    /\ payload.args["finish"] = <<"flag", 1>> ) =>
    payload.args["progress"] = <<"pct", 100>>
C31_Witness ==
  /\ Built /\ target_seconds = 1000 /\ elapsed = 999 /\ progress_val # One
  /\ {"progress", "finish"} \subseteq DOMAIN payload.args
  /\ payload.args["finish"] = <<"flag", 1>>
  /\ payload.args["progress"] = <<"pct", 100>>

====
